---- MODULE Spec2Model ----
(***************************************************************************)
(* Transition engine of the AuraScroll section scroller.                   *)
(*                                                                         *)
(* Three packagings of the same engine are modelled side by side:          *)
(*   "Basic"  - src/components/ScrollingSections.tsx (hook useGsap-        *)
(*              Animations): closure state, always wraps, deferred init,   *)
(*              setActiveIndex notification;                               *)
(*   "Framer" - src/Framer/AuraScroll.tsx: state in React refs that        *)
(*              outlive an effect run, infiniteScroll switch, observer     *)
(*              disable/enable driven by an IntersectionObserver;          *)
(*   "Scroll" - src/unnamed/part_006 (first component): infiniteScroll     *)
(*              switch, observer killed at a boundary and re-created by a  *)
(*              scroll listener.                                           *)
(* The variant, the boundary mode and the section count are fixed for one  *)
(* behaviour; an effect re-run re-initialises the engine with the same     *)
(* configuration.                                                          *)
(***************************************************************************)
EXTENDS Integers, Sequences, FiniteSets, TLC

\* Largest section count explored.
MaxN == 3
\* Largest number of engine initialisations (effect runs) in one behaviour.
MaxInits == 2
\* Largest section count explored by the page-indicator specification.
MaxSections == 12

\* ui.digitHeight: property control default (min 10, max 50), also the
\* fallback `let digitHeight = 20` of ScrollingSections.tsx.
DefaultDigitHeight == 20

DigitHeights == {10, DefaultDigitHeight, 50}

\* Times are in milliseconds.
\* transitions.duration: the timeline's default tween duration (1.25 s).
DefaultDuration == 1250
\* transitions.textStagger: `stagger: { each: 0.02 }`.
DefaultTextStagger == 20
\* `duration: 0.8` of the outgoing heading's glyphs.
TextOutroDuration == 800
\* `duration: 1` of the incoming heading's glyphs.
TextIntroDuration == 1000
\* `duration: 1` of the two digit strips.
IndicatorDuration == 1000
\* Position parameter 0.2 of the incoming heading and the digit strips.
IntroOffset == 200

\* Property controls: duration min 0.1, max 5; textStagger min 0, max 0.1.
Durations == {100, DefaultDuration, 5000}

TextStaggers == {0, DefaultTextStagger, 100}

\* Longest heading explored, in glyphs.
MaxGlyphs == 12

Glyphs == {1, MaxGlyphs}

\* `tolerance: 10` of Observer.create.
Tolerance == 10
\* `wheelSpeed: -1` of Observer.create.
WheelSpeed == -1

\* `type: "wheel,touch,pointer"`: touch and pointer share one slot of the
\* Observer's delta store.
InputKinds == {"wheel", "touch"}

\* Raw deltas explored: below the tolerance and exactly at it, both signs.
RawDeltas == {-Tolerance, -6, 6, Tolerance}

\* gsap.min.js, Observer.min.js, SplitText.min.js, in loading order.
ScriptCount == 3

Scripts == 1..ScriptCount

\* Largest number of component instances on one page.
MaxInstances == 3

\* The largest page of the digit-strip check: the first section count with a
\* three-digit page number.
MaxPages == 100

Instances == 1..MaxInstances

Variants == {"Basic", "Framer", "Scroll"}

VARIABLES
    variant,        \* which packaging of the engine runs
    infiniteScroll, \* transitions.infiniteScroll (wraparound on/off)
    N,              \* sections.length
    ctxRecords,     \* does gsap.context() own timelines built in Observer callbacks
    phase,          \* "unmounted" | "pending" (init timer armed) | "live"
    inst,           \* number of the current engine instance (effect run), 0 = none yet
    currentIndex,   \* currentIndex / currentIndexRef.current
    animating,      \* animating / animatingRef.current (the busy flag)
    timelines,      \* composite timelines in flight, in creation order
    enabledObs,     \* instances whose input Observer is enabled (listening)
    isSnapping,     \* isSnappingRef.current
    snap,           \* observer captured by the snap-scroll tween in flight, 0 = none
    lastEntry,      \* entry.isIntersecting of the latest IntersectionObserver callback
    activeIndex,    \* React state fed by setActiveIndex (index-changed notification)
    emitted,        \* arguments of the setActiveIndex calls made by the last step
    digitHeight,    \* pixel height of one digit row of the page indicator
    duration,       \* transitions.duration: default tween duration, in ms
    textStagger,    \* transitions.textStagger: delay between glyphs, in ms
    chars,          \* number of glyphs SplitText makes of a heading
    deltaY,         \* Observer's movement gathered since its last callback, per input kind
    lastDelta,      \* history: the delta of the last raw input event
    scripts,        \* the GSAP <script> elements of the page: absent, loading, loaded
    loaders,        \* per component instance: where its script loader stands
    tensY,          \* y offset of the tens digit strip
    unitsY,         \* y offset of the units digit strip
    visible,        \* sections whose autoAlpha is 1
    targetsReady,   \* GSAP globals and the page-indicator handle are available
    gsapModules,    \* Framer: where the dynamic import of the GSAP modules stands
    showIndicator,  \* ui.showIndicator: whether the page indicator is rendered
    sectionBlur,    \* per section: its blurAmount override
    blurMode,       \* which operator resolves the override: "or" (||), "nullish" (??)
    lastOp          \* history: the last handler that ran and what it did

vars == <<variant, infiniteScroll, N, ctxRecords, phase, inst, currentIndex,
          animating, timelines, enabledObs, isSnapping, snap, lastEntry, activeIndex,
          emitted, digitHeight, duration, textStagger, chars, deltaY, lastDelta,
          scripts, loaders, tensY, unitsY, visible, targetsReady, gsapModules,
          showIndicator, sectionBlur, blurMode, lastOp>>

config == <<variant, infiniteScroll, N, ctxRecords, digitHeight, duration, textStagger, chars>>

\* What the Observer has gathered of the raw input.
gesture == <<deltaY, lastDelta>>

\* The script loader of the self-contained packaging.
loading == <<scripts, loaders>>

\* What the component is given besides the transitions: the outcome of the
\* module import, the indicator switch and the sections' blur overrides.
props == <<gsapModules, showIndicator, sectionBlur, blurMode>>

\* What a step of the engine proper leaves alone: the configuration and the
\* script loader, and for every step but an Observer callback the gathered
\* input as well.
fixed == <<config, loading, props>>

still == <<fixed, gesture>>

\* The page indicator strips and the sections' visibility.
visual == <<tensY, unitsY, visible>>

Op(o, r) == [op |-> o, res |-> r]

(***************************************************************************)
(* Pure helpers                                                            *)
(***************************************************************************)

\* JavaScript's % operator (sign of the dividend).
JSRem(a, b) == IF a >= 0 THEN a % b ELSE -((-a) % b)

WrapTruncated(min, max, value) == JSRem(value - min, max - min) + min

\* gsap.utils.wrap(min, max, value): ((range + (value - min) % range) % range) + min
Wrap(min, max, value) ==
    JSRem((max - min) + JSRem(value - min, max - min), max - min) + min

dFactorInverted(direction) == IF direction = -1 THEN 1 ELSE -1

\* const dFactor = direction === -1 ? -1 : 1
dFactor(direction) == IF direction = -1 THEN -1 ELSE 1

\* const nextNumber = index + 1
nextNumber(index) == index + 1

nextTensSwapped(index) == JSRem(nextNumber(index), 10)

\* const nextTens = Math.floor(nextNumber / 10)
nextTens(index) == nextNumber(index) \div 10

\* const nextUnits = nextNumber % 10
nextUnits(index) == JSRem(nextNumber(index), 10)

\* A section without a blurAmount.
Absent == "undefined"

\* animation.imageBlurAmount, the global default blur.
ImageBlurAmount == "5px"

\* The blurAmount values a section is given here: none, the empty string (the
\* default value of the property control) and a length.
BlurValues == {Absent, "", "10px"}

\* sections[i].blurAmount || animConfig.imageBlurAmount: every falsy value,
\* undefined and the empty string alike, gives way to the default.
BlurOr(b) == IF b = Absent \/ b = "" THEN ImageBlurAmount ELSE b

\* sections[i].blurAmount ?? animConfig.imageBlurAmount: only undefined (or
\* null) gives way to the default.
BlurNullish(b) == IF b = Absent THEN ImageBlurAmount ELSE b

\* The blurAmount that goes into filter: `blur(${blurAmount})` for section i.
blurAmount(i) ==
    LET given == IF i \in DOMAIN sectionBlur THEN sectionBlur[i] ELSE Absent
    IN  IF blurMode = "or" THEN BlurOr(given) ELSE BlurNullish(given)

OffsetsUnsigned(d) ==
    [outText |-> -150, outImage |-> -30, inImage |-> 30, inText |-> 150,
     outer |-> 100, inner |-> -100, outerEnd |-> 0, innerEnd |-> 0]

\* The yPercent values of gotoSection's tweens for the direction factor d:
\* where the outgoing heading and image move to, where the incoming image and
\* heading start from, and the fromTo of the two reveal wrappers
\* (yPercent: i => i ? -100 * dFactor : 100 * dFactor, to yPercent 0).
Offsets(d) ==
    [outText |-> -150 * d, outImage |-> -30 * d, inImage |-> 30 * d, inText |-> 150 * d,
     outer |-> 100 * d, inner |-> -100 * d, outerEnd |-> 0, innerEnd |-> 0]

\* The timeline gsap.timeline({...}) built by gotoSection for (from, to, direction),
\* created inside a callback of the observer of instance o; tensY and unitsY
\* are the end values of the two page-indicator tweens (tweens of
\* pageIndicatorRef.current?.tensRef.current, which move nothing when the
\* indicator is not rendered).
NewTimeline(o, from, to, direction) ==
    [inst |-> o, from |-> from, to |-> to, dir |-> dFactor(direction),
     offsets |-> Offsets(dFactor(direction)),
     blurOut |-> blurAmount(from), blurIn |-> blurAmount(to),
     tensY |-> IF showIndicator THEN -nextTens(to) * digitHeight ELSE tensY,
     unitsY |-> IF showIndicator THEN -nextUnits(to) * digitHeight ELSE unitsY,
     time |-> 0]

Max(S) == CHOOSE x \in S : \A y \in S : y <= x

\* `stagger: { each: textStagger }`: the last glyph starts this much later
\* than the first.
StaggerSpread == textStagger * (chars - 1)

\* The tweens gotoSection adds to its timeline, with the position parameter
\* each is added at and the time its last target ends.
Tracks ==
    << [name |-> "outHeading", start |-> 0, end |-> TextOutroDuration + StaggerSpread],
       [name |-> "outImage",   start |-> 0, end |-> duration],
       [name |-> "wrappers",   start |-> 0, end |-> duration],
       [name |-> "inImage",    start |-> 0, end |-> duration],
       [name |-> "inHeading",  start |-> IntroOffset,
                               end |-> IntroOffset + TextIntroDuration + StaggerSpread],
       [name |-> "tens",       start |-> IntroOffset, end |-> IntroOffset + IndicatorDuration],
       [name |-> "units",      start |-> IntroOffset, end |-> IntroOffset + IndicatorDuration] >>

TrackEnds == {Tracks[k].end : k \in DOMAIN Tracks}

onCompleteAtDefault == duration

\* `onComplete` is given in the vars of gsap.timeline(), so it runs when the
\* timeline's playhead reaches the end of its last child.
onCompleteAt == Max(TrackEnds)

HideAtImageEnd == Tracks[2].end

\* .set(sectionsDom[from], { autoAlpha: 0 }) is chained after the outgoing
\* heading and image tweens without a position parameter, so it is placed at
\* the end the timeline has at that point: the later end of those two tweens.
HideAt == Max({Tracks[1].end, Tracks[2].end})

NotifyOneBased(index) == <<index + 1>>

\* setActiveIndex(index): one call of the index-changed notification.
Notify(index) == <<index>>

\* ctx.revert(): kills the animations the context of instance i recorded.
Reverted(tls, i) ==
    IF ctxRecords THEN SelectSeq(tls, LAMBDA t : t.inst # i) ELSE tls

\* ctx.revert() on the sections: the recorded gsap.set of section 0 is undone
\* (back to the stylesheet's hidden state), as is whatever else the context owns.
RevertedVisible(v) == IF ctxRecords THEN {} ELSE v \ {0}

RemoveAt(s, i) == [j \in 1..(Len(s) - 1) |-> IF j < i THEN s[j] ELSE s[j + 1]]

(***************************************************************************)
(* Initial state: the component is rendered, no effect has run yet.        *)
(***************************************************************************)
DefaultTransitions ==
    /\ duration = DefaultDuration
    /\ textStagger = DefaultTextStagger
    /\ chars = MaxGlyphs

\* No raw input has arrived yet.
NoGesture ==
    /\ deltaY = [k \in InputKinds |-> 0]
    /\ lastDelta = 0

\* No script loader has started.
NoLoader ==
    /\ scripts = [s \in Scripts |-> "absent"]
    /\ loaders = [i \in Instances |-> [st |-> "unmounted", k |-> 0]]

\* The modules are there, the indicator is rendered (ui.showIndicator defaults
\* to true) and no section overrides the blur.
DefaultSetup ==
    /\ gsapModules = "loaded"
    /\ showIndicator = TRUE
    /\ sectionBlur = [i \in 0..(N - 1) |-> Absent]
    /\ blurMode = "or"

Init ==
    /\ variant \in Variants
    /\ infiniteScroll \in BOOLEAN
    /\ (variant = "Basic" => infiniteScroll)
    /\ N \in 1..MaxN
    /\ ctxRecords \in BOOLEAN
    /\ phase = "unmounted"
    /\ inst = 0
    /\ currentIndex = 0
    /\ animating = FALSE
    /\ timelines = <<>>
    /\ enabledObs = {}
    /\ isSnapping = FALSE
    /\ snap = 0
    /\ lastEntry = "none"
    /\ activeIndex = 0
    /\ emitted = <<>>
    /\ digitHeight = DefaultDigitHeight
    /\ DefaultTransitions
    /\ NoGesture
    /\ NoLoader
    /\ DefaultSetup
    /\ tensY = 0
    /\ unitsY = 0
    /\ visible = {}
    /\ targetsReady \in BOOLEAN
    /\ lastOp = Op("none", "none")

(***************************************************************************)
(* Navigation: gotoSection and the Observer callbacks                      *)
(***************************************************************************)

NeverBusy(a) == FALSE

\* The re-entrancy guard of the callbacks: `!animating && ...` /
\* `if (animatingRef.current) return;`
Busy(a) == a

NeverPastBoundary(d, newIndex) == FALSE

PastBoundaryOffByOne(d, newIndex) == IF d = -1 THEN newIndex < 0 ELSE newIndex > N

\* Bounded mode: newIndex < 0 (onDown) / newIndex >= sections.length (onUp).
PastBoundary(d, newIndex) == IF d = -1 THEN newIndex < 0 ELSE newIndex >= N

StaysEnabled(obs, i) == obs

\* observerRef.current.disable(): the whole observer of instance i stops
\* listening.
DisableObserver(obs, i) == obs \ {i}

killObserverLeaks(obs, i) == obs

\* part_006 killObserver: observer.kill(); observer = null.
killObserver(obs, i) == obs \ {i}

ReqName(d) == IF d = -1 THEN "onDown" ELSE "onUp"

ClearsBusy ==
    /\ animating' = FALSE
    /\ UNCHANGED <<currentIndex, timelines, visible>>

\* A callback that returns without calling gotoSection.
NoNavigation == UNCHANGED <<currentIndex, animating, timelines, visible>>

gotoSectionBasicLate(o, index, direction) ==
    LET idx == Wrap(0, N, index) IN
    /\ animating' = TRUE
    /\ timelines' = Append(timelines, NewTimeline(o, currentIndex, idx, direction))
    /\ visible' = visible \cup {idx}
    /\ currentIndex' = currentIndex

\* ScrollingSections.tsx gotoSection: wraps, marks busy, builds the timeline,
\* shows the incoming section at once (gsap.set autoAlpha 1), commits
\* currentIndex at the end of the call.
gotoSectionBasic(o, index, direction) ==
    LET idx == Wrap(0, N, index) IN
    /\ animating' = TRUE
    /\ timelines' = Append(timelines, NewTimeline(o, currentIndex, idx, direction))
    /\ visible' = visible \cup {idx}
    /\ currentIndex' = idx

\* Framer/AuraScroll.tsx gotoSection: wraps only under infiniteScroll and
\* returns early when the target is the current section.
gotoSectionFramer(o, index, direction) ==
    LET toIndex == IF infiniteScroll THEN Wrap(0, N, index) ELSE index IN
    IF currentIndex = toIndex
    THEN NoNavigation
    ELSE /\ animating' = TRUE
         /\ timelines' = Append(timelines, NewTimeline(o, currentIndex, toIndex, direction))
         /\ visible' = visible \cup {toIndex}
         /\ currentIndex' = toIndex

\* part_006 gotoSection: the caller resolves the index.
gotoSectionScroll(o, index, direction) ==
    /\ animating' = TRUE
    /\ timelines' = Append(timelines, NewTimeline(o, currentIndex, index, direction))
    /\ visible' = visible \cup {index}
    /\ currentIndex' = index

\* ScrollingSections.tsx Observer callbacks:
\*   onDown: () => !animating && gotoSection(currentIndex - 1, -1)
\*   onUp:   () => !animating && gotoSection(currentIndex + 1, 1)
BasicRequest(o, d) ==
    /\ variant = "Basic" /\ phase = "live" /\ o \in enabledObs
    /\ IF Busy(animating)
       THEN NoNavigation /\ lastOp' = Op(ReqName(d), "dropped")
       ELSE gotoSectionBasic(o, currentIndex + d, d) /\ lastOp' = Op(ReqName(d), "started")
    /\ emitted' = <<>>
    /\ UNCHANGED <<fixed, phase, inst, enabledObs, isSnapping, snap, lastEntry, activeIndex,
                   tensY, unitsY, targetsReady>>

\* Framer/AuraScroll.tsx Observer callbacks; observerRef.current is the observer
\* of the current instance, also when the callback belongs to an older one.
FramerRequest(o, d) ==
    /\ variant = "Framer" /\ phase = "live" /\ o \in enabledObs
    /\ IF Busy(animating)
       THEN NoNavigation /\ UNCHANGED enabledObs /\ lastOp' = Op(ReqName(d), "dropped")
       ELSE LET newIndex == currentIndex + d IN
            IF ~infiniteScroll /\ PastBoundary(d, newIndex)
            THEN /\ enabledObs' = DisableObserver(enabledObs, inst)
                 /\ NoNavigation
                 /\ lastOp' = Op(ReqName(d), "refused")
            ELSE /\ gotoSectionFramer(o, newIndex, d)
                 /\ UNCHANGED enabledObs
                 /\ lastOp' = Op(ReqName(d), IF animating' THEN "started" ELSE "noop")
    /\ emitted' = <<>>
    /\ UNCHANGED <<fixed, phase, inst, isSnapping, snap, lastEntry, activeIndex,
                   tensY, unitsY, targetsReady>>

\* part_006 createObserver callbacks; killObserver() at a boundary.
ScrollRequest(o, d) ==
    /\ variant = "Scroll" /\ phase = "live" /\ o \in enabledObs
    /\ IF Busy(animating)
       THEN NoNavigation /\ UNCHANGED enabledObs /\ lastOp' = Op(ReqName(d), "dropped")
       ELSE LET newIndex == currentIndex + d IN
            IF infiniteScroll
            THEN /\ gotoSectionScroll(o, Wrap(0, N, newIndex), d)
                 /\ UNCHANGED enabledObs
                 /\ lastOp' = Op(ReqName(d), "started")
            ELSE IF ~PastBoundary(d, newIndex)
                 THEN /\ gotoSectionScroll(o, newIndex, d)
                      /\ UNCHANGED enabledObs
                      /\ lastOp' = Op(ReqName(d), "started")
                 ELSE /\ enabledObs' = killObserver(enabledObs, o)
                      /\ NoNavigation
                      /\ lastOp' = Op(ReqName(d), "refused")
    /\ emitted' = <<>>
    /\ UNCHANGED <<fixed, phase, inst, isSnapping, snap, lastEntry, activeIndex,
                   tensY, unitsY, targetsReady>>

\* A navigate request delivered by the observer of instance o.
RequestBy(o, d) == BasicRequest(o, d) \/ FramerRequest(o, d) \/ ScrollRequest(o, d)

onDown == UNCHANGED gesture /\ \E o \in 1..MaxInits : RequestBy(o, -1)

onUp == UNCHANGED gesture /\ \E o \in 1..MaxInits : RequestBy(o, 1)

Abs(x) == IF x < 0 THEN -x ELSE x

Min(S) == CHOOSE x \in S : \A y \in S : x <= y

\* Observer scales wheel deltas by wheelSpeed; drag deltas are taken as is.
Scaled(kind, delta) == IF kind = "wheel" THEN delta * WheelSpeed ELSE delta

\* Observer reports the gathered delta of largest magnitude among its slots.
AbsoluteMax(store) ==
    LET values == {store[k] : k \in DOMAIN store} IN
    IF Max(values) >= -Min(values) THEN Max(values) ELSE Min(values)

ChangedAlways(dy) == dy # 0

\* Observer's update(): callbacks fire once the gathered delta reaches the
\* tolerance, `Math.abs(dy) >= tolerance`.
Changed(dy) == Abs(dy) >= Tolerance

\* A raw wheel or drag event reaches the listening observer of instance o.
\* GSAP's Observer (3.12.5, the version the self-contained packaging loads)
\* adds the event's delta to the slot of its input kind; when the gathered
\* delta reaches the tolerance it calls onDown (positive) or onUp (negative)
\* and clears the slots, otherwise it keeps gathering and calls nothing.
RawInput ==
    \E o \in 1..MaxInits : \E kind \in InputKinds : \E delta \in RawDeltas :
        LET store == [deltaY EXCEPT ![kind] = @ + Scaled(kind, delta)]
            dy == AbsoluteMax(store)
        IN  /\ o \in enabledObs /\ phase = "live"
            /\ lastDelta' = delta
            /\ IF Changed(dy)
               THEN /\ deltaY' = [k \in InputKinds |-> 0]
                    /\ RequestBy(o, IF dy > 0 THEN -1 ELSE 1)
               ELSE /\ deltaY' = store
                    /\ lastOp' = Op("raw", "gathered")
                    /\ emitted' = <<>>
                    /\ UNCHANGED <<fixed, phase, inst, currentIndex, animating, timelines,
                                   enabledObs, isSnapping, snap, lastEntry, activeIndex,
                                   visual, targetsReady>>

onCompleteReplays(i) ==
    /\ i \in 1..Len(timelines)
    /\ LET tl == timelines[i] IN
       /\ timelines' = Append(RemoveAt(timelines, i),
                              NewTimeline(tl.inst, tl.to, Wrap(0, N, tl.to + tl.dir), tl.dir))
       /\ animating' = TRUE
       /\ activeIndex' = IF variant = "Basic" THEN tl.to ELSE activeIndex
       /\ emitted' = IF variant = "Basic" THEN Notify(tl.to) ELSE <<>>
       /\ tensY' = tl.tensY
       /\ unitsY' = tl.unitsY
       /\ visible' = visible \ {tl.from}
    /\ lastOp' = Op("onComplete", "done")
    /\ UNCHANGED <<still, phase, inst, currentIndex, enabledObs, isSnapping, snap, lastEntry,
                   targetsReady>>

onCompleteSilent(i) ==
    /\ i \in 1..Len(timelines)
    /\ LET tl == timelines[i] IN
       /\ timelines' = RemoveAt(timelines, i)
       /\ animating' = IF variant = "Framer" \/ tl.inst = inst THEN FALSE ELSE animating
       /\ tensY' = tl.tensY
       /\ unitsY' = tl.unitsY
       /\ visible' = visible \ {tl.from}
    /\ emitted' = <<>>
    /\ lastOp' = Op("onComplete", "done")
    /\ UNCHANGED <<still, phase, inst, currentIndex, enabledObs, isSnapping, snap, lastEntry,
                   activeIndex, targetsReady>>

onCompleteStaysBusy(i) ==
    /\ i \in 1..Len(timelines)
    /\ LET tl == timelines[i] IN
       /\ timelines' = RemoveAt(timelines, i)
       /\ activeIndex' = IF variant = "Basic" THEN tl.to ELSE activeIndex
       /\ emitted' = IF variant = "Basic" THEN Notify(tl.to) ELSE <<>>
       /\ tensY' = tl.tensY
       /\ unitsY' = tl.unitsY
       /\ visible' = visible \ {tl.from}
    /\ lastOp' = Op("onComplete", "done")
    /\ UNCHANGED <<still, phase, inst, currentIndex, animating, enabledObs, isSnapping,
                   snap, lastEntry, targetsReady>>

\* The timeline's playhead reaches its end: the page-indicator tweens have
\* reached their end values, the outgoing section has been hidden
\* (.set autoAlpha 0), and the onComplete callback runs: busy is cleared and
\* the packagings that take a setActiveIndex callback call it with the target.
onComplete(i) ==
    /\ i \in 1..Len(timelines)
    /\ LET tl == timelines[i] IN
       /\ timelines' = RemoveAt(timelines, i)
       /\ animating' = IF variant = "Framer" \/ tl.inst = inst THEN FALSE ELSE animating
       /\ activeIndex' = IF variant = "Basic" THEN tl.to ELSE activeIndex
       /\ emitted' = IF variant = "Basic" THEN Notify(tl.to) ELSE <<>>
       /\ tensY' = tl.tensY
       /\ unitsY' = tl.unitsY
       /\ visible' = visible \ {tl.from}
    /\ lastOp' = Op("onComplete", "done")
    /\ UNCHANGED <<still, phase, inst, currentIndex, enabledObs, isSnapping, snap, lastEntry,
                   targetsReady>>

TimelineCompletes == \E i \in DOMAIN timelines : onComplete(i)

\* A tick of the animation clock moves the playhead of a timeline in flight
\* forward, here to the end of one of its tweens; the outgoing section is
\* hidden when the playhead reaches the .set() placed at HideAt.
Tick ==
    \E i \in DOMAIN timelines : \E t \in TrackEnds :
        /\ timelines[i].time < t /\ timelines[i].time < onCompleteAt
        /\ timelines' = [timelines EXCEPT ![i].time = t]
        /\ visible' = IF timelines[i].time < HideAt /\ t >= HideAt
                      THEN visible \ {timelines[i].from} ELSE visible
        /\ emitted' = <<>>
        /\ lastOp' = Op("tick", "running")
        /\ UNCHANGED <<still, phase, inst, currentIndex, animating, enabledObs, isSnapping,
                       snap, lastEntry, activeIndex, tensY, unitsY, targetsReady>>

\* The completion callback of a timeline whose playhead has reached the
\* time the callback is attached to.
TrackCompletes ==
    \E i \in DOMAIN timelines : timelines[i].time >= onCompleteAt /\ onComplete(i)

(***************************************************************************)
(* Life cycle: effect run, deferred initialisation, cleanup                *)
(***************************************************************************)

KeepsBusy(a) == a

\* `let animating = false` / `animatingRef.current = false` at initialisation.
InitialAnimating(a) == FALSE

\* The environment makes the engine's prerequisites available: the GSAP
\* globals are defined (isGsapReady in the Framer component) and the page
\* indicator handle is attached.
TargetsAppear ==
    /\ ~targetsReady
    /\ targetsReady' = TRUE
    /\ emitted' = <<>>
    /\ lastOp' = Op("targets", "ready")
    /\ UNCHANGED <<still, phase, inst, currentIndex, animating, timelines, enabledObs,
                   isSnapping, snap, lastEntry, activeIndex, visual>>

\* useLayoutEffect body of ScrollingSections.tsx and part_006:
\* setTimeout(initAnimations, 0) / setTimeout(init, 100).
EffectRun ==
    /\ variant \in {"Basic", "Scroll"}
    /\ phase = "unmounted" /\ inst < MaxInits
    /\ phase' = "pending"
    /\ emitted' = <<>>
    /\ lastOp' = Op("effect", "timer")
    /\ UNCHANGED <<still, inst, currentIndex, animating, timelines, enabledObs,
                   isSnapping, snap, lastEntry, activeIndex, visual, targetsReady>>

\* The guards at the top of initAnimations / init / the Framer effect:
\*   typeof gsap === 'undefined' || ... -> return
\*   !pageIndicatorHandles || !pageIndicatorHandles.rootRef.current -> return
\*   !isGsapReady || !mainRef.current -> return
TargetsAvailable(ready) == ready

IndicatorHandleAlways(ready) == ready

\* {ui.showIndicator && <PageIndicator ref={pageIndicatorRef} />}: the handle
\* pageIndicatorRef.current is attached only when the indicator is rendered.
IndicatorHandle(ready) == ready /\ showIndicator

\* The timer callback returns at one of its guards: nothing is initialised
\* and nothing schedules another attempt.
InitSkipped ==
    /\ variant \in {"Basic", "Scroll"} /\ phase = "pending"
    /\ ~TargetsAvailable(IndicatorHandle(targetsReady))
    /\ phase' = "skipped"
    /\ emitted' = <<>>
    /\ lastOp' = Op("guard", "skipped")
    /\ UNCHANGED <<still, inst, currentIndex, animating, timelines, enabledObs,
                   isSnapping, snap, lastEntry, activeIndex, visual, targetsReady>>

InitialSceneZero ==
    /\ tensY' = 0
    /\ unitsY' = 0

\* gsap.set(...) of the initial page indicator number (initialNumber = 1),
\* without animation.
InitialScene ==
    /\ tensY' = -nextTens(0) * digitHeight
    /\ unitsY' = -nextUnits(0) * digitHeight

\* ScrollingSections.tsx initAnimations (timer callback): fresh closure state,
\* setActiveIndex(0), initial scene, Observer.create (enabled on creation).
initAnimations ==
    /\ variant = "Basic" /\ phase = "pending"
    /\ TargetsAvailable(IndicatorHandle(targetsReady))
    /\ phase' = "live"
    /\ inst' = inst + 1
    /\ currentIndex' = 0
    /\ activeIndex' = 0
    /\ emitted' = Notify(0)
    /\ animating' = InitialAnimating(animating)
    /\ InitialScene
    /\ visible' = visible \cup {0}
    /\ enabledObs' = enabledObs \cup {inst + 1}
    /\ lastOp' = Op("init", "done")
    /\ UNCHANGED <<still, timelines, isSnapping, snap, lastEntry, targetsReady>>

\* part_006 init (timer callback): refs created by this effect run; the
\* observer is created at once under infiniteScroll, otherwise by the first
\* handleScroll() call when the component is centred in the viewport.
init ==
    /\ variant = "Scroll" /\ phase = "pending"
    /\ TargetsAvailable(IndicatorHandle(targetsReady))
    /\ phase' = "live"
    /\ inst' = inst + 1
    /\ currentIndex' = 0
    /\ animating' = InitialAnimating(animating)
    /\ InitialScene
    /\ visible' = visible \cup {0}
    /\ emitted' = <<>>
    /\ \E isCentered \in BOOLEAN :
          enabledObs' = IF infiniteScroll \/ isCentered
                        THEN enabledObs \cup {inst + 1} ELSE enabledObs
    /\ lastOp' = Op("init", "done")
    /\ UNCHANGED <<still, timelines, isSnapping, snap, lastEntry, activeIndex, targetsReady>>

\* part_006 handleScroll: re-creates the observer once the component is
\* centred and no observer exists.
handleScroll ==
    /\ variant = "Scroll" /\ phase = "live" /\ ~infiniteScroll
    /\ \E isCentered \in BOOLEAN :
          IF inst \notin enabledObs /\ isCentered
          THEN enabledObs' = enabledObs \cup {inst} /\ lastOp' = Op("handleScroll", "created")
          ELSE UNCHANGED enabledObs /\ lastOp' = Op("handleScroll", "none")
    /\ emitted' = <<>>
    /\ UNCHANGED <<still, phase, inst, currentIndex, animating, timelines,
                   isSnapping, snap, lastEntry, activeIndex, visual, targetsReady>>

\* ctx.revert() of instance i: the animations the context owns are killed and
\* what the recorded gsap.set calls changed goes back to the stylesheet.
Revert(i) ==
    /\ timelines' = Reverted(timelines, i)
    /\ visible' = RevertedVisible(visible)
    /\ tensY' = 0
    /\ unitsY' = 0

cleanupKeepsTimer ==
    /\ variant \in {"Basic", "Scroll"}
    /\ phase \in {"pending", "skipped", "live"}
    /\ phase' = IF phase = "pending" THEN "pending" ELSE "unmounted"
    /\ IF phase = "live"
       THEN /\ enabledObs' = enabledObs \ {inst}
            /\ Revert(inst)
       ELSE UNCHANGED <<enabledObs, timelines, visual>>
    /\ emitted' = <<>>
    /\ lastOp' = Op("cleanup", IF phase = "pending" THEN "cleared" ELSE "done")
    /\ UNCHANGED <<still, inst, currentIndex, animating, isSnapping, snap, lastEntry, activeIndex,
                   targetsReady>>

\* Effect cleanup of ScrollingSections.tsx and part_006: clearTimeout (the
\* armed timer, if it has not fired, never fires), and if initialisation ran,
\* observer.kill() and ctx.revert().
cleanup ==
    /\ variant \in {"Basic", "Scroll"}
    /\ phase \in {"pending", "skipped", "live"}
    /\ phase' = "unmounted"
    /\ IF phase = "live"
       THEN /\ enabledObs' = enabledObs \ {inst}
            /\ Revert(inst)
       ELSE UNCHANGED <<enabledObs, timelines, visual>>
    /\ emitted' = <<>>
    /\ lastOp' = Op("cleanup", IF phase = "pending" THEN "cleared" ELSE "done")
    /\ UNCHANGED <<still, inst, currentIndex, animating, isSnapping, snap, lastEntry, activeIndex,
                   targetsReady>>

FramerInitEnabled(obs, tls) ==
    /\ phase' = "live"
    /\ inst' = inst + 1
    /\ currentIndex' = 0
    /\ animating' = InitialAnimating(animating)
    /\ visible' = {0}
    /\ tensY' = 0
    /\ unitsY' = -1 * digitHeight
    /\ emitted' = <<>>
    /\ enabledObs' = obs \cup {inst + 1}
    /\ timelines' = tls
    /\ lastEntry' = "none"
    /\ UNCHANGED <<still, isSnapping, snap, activeIndex, targetsReady>>

\* Framer/AuraScroll.tsx useLayoutEffect body: every section hidden and section
\* 0 shown, the refs reset, the page indicator set to 01, the observer
\* created, disabled, and enabled again only under infiniteScroll; in bounded
\* mode an IntersectionObserver is armed instead.
FramerInit(obs, tls) ==
    /\ phase' = "live"
    /\ inst' = inst + 1
    /\ currentIndex' = 0
    /\ animating' = InitialAnimating(animating)
    /\ visible' = {0}
    /\ tensY' = IF showIndicator THEN 0 ELSE tensY
    /\ unitsY' = IF showIndicator THEN -1 * digitHeight ELSE unitsY
    /\ emitted' = <<>>
    /\ enabledObs' = IF infiniteScroll THEN obs \cup {inst + 1} ELSE obs
    /\ timelines' = tls
    /\ lastEntry' = "none"
    /\ UNCHANGED <<still, isSnapping, snap, activeIndex, targetsReady>>

\* First effect run of the Framer component that passes the guard
\* (isGsapReady became true and the scene is rendered).
FramerMount ==
    /\ variant = "Framer" /\ phase = "unmounted" /\ inst = 0
    /\ TargetsAvailable(targetsReady)
    /\ gsapModules = "loaded"
    /\ FramerInit(enabledObs, timelines)
    /\ lastOp' = Op("init", "done")

\* A dependency of the Framer effect changed: cleanup (disconnect, kill,
\* revert) and the new effect run happen in the same commit.
FramerReInit ==
    /\ variant = "Framer" /\ phase = "live" /\ inst < MaxInits
    /\ FramerInit(enabledObs \ {inst}, Reverted(timelines, inst))
    /\ lastOp' = Op("init", "reinit")

\* The Framer component is unmounted: intersectionObserver.disconnect(),
\* observerRef.current.kill(), ctx.revert().
FramerUnmount ==
    /\ variant = "Framer" /\ phase = "live"
    /\ phase' = "unmounted"
    /\ enabledObs' = enabledObs \ {inst}
    /\ Revert(inst)
    /\ emitted' = <<>>
    /\ lastOp' = Op("cleanup", "done")
    /\ UNCHANGED <<still, inst, currentIndex, animating, isSnapping, snap, lastEntry, activeIndex,
                   targetsReady>>

\* IntersectionObserver callback of the Framer component (bounded mode).
IntersectionCallback ==
    /\ variant = "Framer" /\ phase = "live" /\ ~infiniteScroll
    /\ \E isIntersecting \in BOOLEAN :
          /\ IF isSnapping
             THEN UNCHANGED <<isSnapping, snap, enabledObs>> /\ lastOp' = Op("intersection", "ignored")
             ELSE IF isIntersecting /\ inst \notin enabledObs
                  THEN /\ isSnapping' = TRUE
                       /\ snap' = inst
                       /\ UNCHANGED enabledObs
                       /\ lastOp' = Op("intersection", "snap")
                  ELSE IF ~isIntersecting /\ inst \in enabledObs
                       THEN /\ enabledObs' = enabledObs \ {inst}
                            /\ UNCHANGED <<isSnapping, snap>>
                            /\ lastOp' = Op("intersection", "disabled")
                       ELSE /\ UNCHANGED <<isSnapping, snap, enabledObs>>
                            /\ lastOp' = Op("intersection", "none")
          /\ lastEntry' = IF isIntersecting THEN "in" ELSE "out"
    /\ emitted' = <<>>
    /\ UNCHANGED <<still, phase, inst, currentIndex, animating, timelines, activeIndex,
                   visual, targetsReady>>

\* onComplete of the snap-scroll tween gsap.to(window, {scrollTo: ...}):
\* observer.enable() on the observer the callback captured.
SnapComplete ==
    /\ snap # 0
    /\ enabledObs' = enabledObs \cup {snap}
    /\ isSnapping' = FALSE
    /\ snap' = 0
    /\ lastOp' = Op("snapComplete", "enabled")
    /\ emitted' = <<>>
    /\ UNCHANGED <<still, phase, inst, currentIndex, animating, timelines, lastEntry, activeIndex,
                   visual, targetsReady>>

Next ==
    \/ TargetsAppear
    \/ EffectRun
    \/ InitSkipped
    \/ initAnimations
    \/ init
    \/ handleScroll
    \/ cleanup
    \/ FramerMount
    \/ FramerReInit
    \/ FramerUnmount
    \/ IntersectionCallback
    \/ SnapComplete
    \/ onDown
    \/ onUp
    \/ TimelineCompletes

Spec == Init /\ [][Next]_vars

(***************************************************************************)
(* Page indicator: a mounted engine whose observer is listening, over a    *)
(* section count large enough for two-digit page numbers.                  *)
(***************************************************************************)
\* The engine right after its first initialisation, observer listening.
Mounted ==
    /\ phase = "live"
    /\ inst = 1
    /\ currentIndex = 0
    /\ animating = FALSE
    /\ timelines = <<>>
    /\ enabledObs = {1}
    /\ isSnapping = FALSE
    /\ snap = 0
    /\ lastEntry = IF variant = "Framer" /\ ~infiniteScroll THEN "in" ELSE "none"
    /\ activeIndex = 0
    /\ emitted = IF variant = "Basic" THEN Notify(0) ELSE <<>>
    /\ tensY = -nextTens(0) * digitHeight
    /\ unitsY = -nextUnits(0) * digitHeight
    /\ visible = {0}
    /\ targetsReady = TRUE
    /\ lastOp = IF variant = "Framer" /\ ~infiniteScroll
                THEN Op("snapComplete", "enabled") ELSE Op("init", "done")

DigitInit ==
    /\ variant \in Variants
    /\ infiniteScroll \in BOOLEAN
    /\ (variant = "Basic" => infiniteScroll)
    /\ N \in 1..MaxSections
    /\ ctxRecords \in BOOLEAN
    /\ digitHeight \in DigitHeights
    /\ DefaultTransitions
    /\ NoGesture
    /\ NoLoader
    /\ DefaultSetup
    /\ Mounted

DigitNext ==
    \/ onDown
    \/ onUp
    \/ TimelineCompletes

DigitSpec == DigitInit /\ [][DigitNext]_vars

\* The mounted engine with an animation clock that keeps ticking: a timeline
\* in flight is advanced by the GSAP ticker until its playhead reaches the
\* end, and nothing tears the engine down.
LiveSpec == DigitInit /\ [][DigitNext]_vars /\ WF_vars(TimelineCompletes)

(***************************************************************************)
(* Choreography timing: a mounted engine under every configured duration,  *)
(* stagger and heading length, its timelines advanced tick by tick.        *)
(***************************************************************************)
TrackInit ==
    /\ variant \in Variants
    /\ infiniteScroll \in BOOLEAN
    /\ (variant = "Basic" => infiniteScroll)
    /\ N \in 1..MaxN
    /\ ctxRecords \in BOOLEAN
    /\ digitHeight = DefaultDigitHeight
    /\ duration \in Durations
    /\ textStagger \in TextStaggers
    /\ (variant = "Basic" => (duration = DefaultDuration /\ textStagger = DefaultTextStagger))
    /\ chars \in Glyphs
    /\ NoGesture
    /\ NoLoader
    /\ DefaultSetup
    /\ Mounted

TrackNext ==
    \/ onDown
    \/ onUp
    \/ Tick
    \/ TrackCompletes

TrackSpec == TrackInit /\ [][TrackNext]_vars

(***************************************************************************)
(* Script loader of the self-contained packaging (part_005): component     *)
(* instances on one page share the <script> elements of the document.      *)
(***************************************************************************)
\* The engine proper, which the loader does not touch.
engine == <<phase, inst, currentIndex, animating, timelines, enabledObs, isSnapping, snap,
            lastEntry, activeIndex, emitted, visual, targetsReady>>

\* loadScript: `if (document.getElementById(id)) { resolve(); return; }`
ScriptExists(sc, k) == sc[k] # "absent"

\* The awaits of loadAllScripts from script k on, up to the first promise
\* that does not resolve at once: a script whose element exists is passed
\* over, a missing one is appended to the document and awaited, and after
\* the last script setScriptsLoaded(true) runs.
RECURSIVE LoadFrom(_, _)
LoadFrom(sc, k) ==
    IF k > ScriptCount THEN [scripts |-> sc, st |-> "scriptsLoaded", k |-> 0]
    ELSE IF ScriptExists(sc, k) THEN LoadFrom(sc, k + 1)
    ELSE [scripts |-> [sc EXCEPT ![k] = "loading"], st |-> "await", k |-> k]

\* useGsapScripts effect of instance i: loadAllScripts().
loadAllScripts ==
    \E i \in Instances :
        /\ loaders[i].st = "unmounted"
        /\ LET r == LoadFrom(scripts, 1) IN
           /\ scripts' = r.scripts
           /\ loaders' = [loaders EXCEPT ![i] = [st |-> r.st, k |-> r.k]]
        /\ lastOp' = Op("loadAllScripts", "started")
        /\ UNCHANGED <<config, props, gesture, engine>>

\* script.onload of script k: the script has run (its global is defined) and
\* the promise of the instance that appended it resolves; that instance's
\* loadAllScripts goes on with the next script.
onload ==
    \E k \in Scripts :
        /\ scripts[k] = "loading"
        /\ LET loaded == [scripts EXCEPT ![k] = "loaded"]
               waiting == {i \in Instances : loaders[i] = [st |-> "await", k |-> k]}
               r == LoadFrom(loaded, k + 1)
           IN /\ scripts' = IF waiting = {} THEN loaded ELSE r.scripts
              /\ loaders' = [i \in Instances |->
                                IF i \in waiting THEN [st |-> r.st, k |-> r.k] ELSE loaders[i]]
        /\ lastOp' = Op("onload", "resolved")
        /\ UNCHANGED <<config, props, gesture, engine>>

\* typeof gsap === 'undefined' || typeof Observer === 'undefined' ||
\* typeof SplitText === 'undefined'
GlobalsDefined(sc) == \A k \in Scripts : sc[k] = "loaded"

\* scriptsLoaded is true: the instance renders its scene and the layout
\* effect of useGsapAnimations runs once; it returns at its guard when a
\* GSAP global is undefined, and none of its dependencies changes when the
\* script arrives later.
useGsapAnimations ==
    \E i \in Instances :
        /\ loaders[i].st = "scriptsLoaded"
        /\ loaders' = [loaders EXCEPT ![i].st =
                          IF GlobalsDefined(scripts) THEN "initialised" ELSE "skipped"]
        /\ lastOp' = Op("useGsapAnimations", loaders'[i].st)
        /\ UNCHANGED <<config, props, gesture, engine, scripts>>

LoaderInit ==
    /\ variant = "Basic"
    /\ infiniteScroll = TRUE
    /\ N = MaxN
    /\ ctxRecords = FALSE
    /\ digitHeight = DefaultDigitHeight
    /\ DefaultTransitions
    /\ NoGesture
    /\ NoLoader
    /\ DefaultSetup
    /\ phase = "unmounted"
    /\ inst = 0
    /\ currentIndex = 0
    /\ animating = FALSE
    /\ timelines = <<>>
    /\ enabledObs = {}
    /\ isSnapping = FALSE
    /\ snap = 0
    /\ lastEntry = "none"
    /\ activeIndex = 0
    /\ emitted = <<>>
    /\ tensY = 0
    /\ unitsY = 0
    /\ visible = {}
    /\ targetsReady = FALSE
    /\ lastOp = Op("none", "none")

LoaderNext ==
    \/ loadAllScripts
    \/ onload
    \/ useGsapAnimations

LoaderSpec == LoaderInit /\ [][LoaderNext]_vars

(***************************************************************************)
(* Raw input: a mounted engine whose requests all come from raw wheel and  *)
(* drag events filtered by the Observer's tolerance.                       *)
(***************************************************************************)
InputInit ==
    /\ variant \in Variants
    /\ infiniteScroll \in BOOLEAN
    /\ (variant = "Basic" => infiniteScroll)
    /\ N \in 1..MaxN
    /\ ctxRecords \in BOOLEAN
    /\ digitHeight = DefaultDigitHeight
    /\ DefaultTransitions
    /\ NoGesture
    /\ NoLoader
    /\ DefaultSetup
    /\ Mounted

InputNext ==
    \/ RawInput
    \/ TimelineCompletes

InputSpec == InputInit /\ [][InputNext]_vars

(***************************************************************************)
(* The Framer component's dynamic import of the GSAP modules               *)
(***************************************************************************)

\* const [isGsapReady, setIsGsapReady] = useState(false)
isGsapReady == targetsReady

\* await Promise.all([import("gsap"), ...]) fulfils: gsap, Observer, SplitText
\* and ScrollToPlugin are assigned and the plugins registered.
ImportsLoad ==
    /\ gsapModules = "pending"
    /\ gsapModules' = "loaded"
    /\ emitted' = <<>>
    /\ lastOp' = Op("import", "loaded")
    /\ UNCHANGED <<config, loading, showIndicator, sectionBlur, blurMode, gesture,
                   phase, inst, currentIndex, animating, timelines, enabledObs,
                   isSnapping, snap, lastEntry, activeIndex, visual, targetsReady>>

\* One of the imports rejects: the catch block logs the error and the async
\* function returns normally, so gsapReadyPromise is fulfilled all the same and
\* the four module variables stay undefined.
ImportsFail ==
    /\ gsapModules = "pending"
    /\ gsapModules' = "failed"
    /\ emitted' = <<>>
    /\ lastOp' = Op("import", "failed")
    /\ UNCHANGED <<config, loading, showIndicator, sectionBlur, blurMode, gesture,
                   phase, inst, currentIndex, animating, timelines, enabledObs,
                   isSnapping, snap, lastEntry, activeIndex, visual, targetsReady>>

\* gsapReadyPromise.then(() => setIsGsapReady(true)): runs once the promise
\* has settled, whichever way the imports went.
gsapReadyThen ==
    /\ variant = "Framer"
    /\ gsapModules # "pending"
    /\ TargetsAppear

\* The layout effect passes its guard (isGsapReady, mainRef, sections) and
\* evaluates gsap.context(...) with gsap undefined: a TypeError inside the
\* effect, which takes the component tree down.
FramerEffectThrows ==
    /\ variant = "Framer" /\ phase = "unmounted" /\ inst = 0
    /\ TargetsAvailable(targetsReady)
    /\ gsapModules = "failed"
    /\ phase' = "crashed"
    /\ emitted' = <<>>
    /\ lastOp' = Op("effect", "TypeError")
    /\ UNCHANGED <<still, inst, currentIndex, animating, timelines, enabledObs,
                   isSnapping, snap, lastEntry, activeIndex, visual, targetsReady>>

\* The Framer component from the evaluation of its module on.
ReadyInit ==
    /\ variant = "Framer"
    /\ infiniteScroll \in BOOLEAN
    /\ N \in 1..MaxN
    /\ ctxRecords \in BOOLEAN
    /\ phase = "unmounted"
    /\ inst = 0
    /\ currentIndex = 0
    /\ animating = FALSE
    /\ timelines = <<>>
    /\ enabledObs = {}
    /\ isSnapping = FALSE
    /\ snap = 0
    /\ lastEntry = "none"
    /\ activeIndex = 0
    /\ emitted = <<>>
    /\ digitHeight = DefaultDigitHeight
    /\ DefaultTransitions
    /\ NoGesture
    /\ NoLoader
    /\ gsapModules = "pending"
    /\ showIndicator = TRUE
    /\ sectionBlur = [i \in 0..(N - 1) |-> Absent]
    /\ blurMode = "or"
    /\ tensY = 0
    /\ unitsY = 0
    /\ visible = {}
    /\ targetsReady = FALSE
    /\ lastOp = Op("none", "none")

ReadyNext ==
    \/ ImportsLoad
    \/ ImportsFail
    \/ gsapReadyThen
    \/ FramerMount
    \/ FramerEffectThrows
    \/ IntersectionCallback
    \/ SnapComplete
    \/ onDown
    \/ onUp
    \/ TimelineCompletes

ReadySpec == ReadyInit /\ [][ReadyNext]_vars

(***************************************************************************)
(* The component with and without its page indicator                       *)
(***************************************************************************)

\* As Init, for a page of two sections, with ui.showIndicator either way.
IndicatorInit ==
    /\ variant \in Variants
    /\ infiniteScroll \in BOOLEAN
    /\ (variant = "Basic" => infiniteScroll)
    /\ N = 2
    /\ ctxRecords \in BOOLEAN
    /\ phase = "unmounted"
    /\ inst = 0
    /\ currentIndex = 0
    /\ animating = FALSE
    /\ timelines = <<>>
    /\ enabledObs = {}
    /\ isSnapping = FALSE
    /\ snap = 0
    /\ lastEntry = "none"
    /\ activeIndex = 0
    /\ emitted = <<>>
    /\ digitHeight = DefaultDigitHeight
    /\ DefaultTransitions
    /\ NoGesture
    /\ NoLoader
    /\ gsapModules = "loaded"
    /\ showIndicator \in BOOLEAN
    /\ sectionBlur = [i \in 0..(N - 1) |-> Absent]
    /\ blurMode = "or"
    /\ tensY = 0
    /\ unitsY = 0
    /\ visible = {}
    /\ targetsReady \in BOOLEAN
    /\ lastOp = Op("none", "none")

IndicatorSpec == IndicatorInit /\ [][Next]_vars

(***************************************************************************)
(* The configurable packaging (part_005) with per-section blur overrides   *)
(***************************************************************************)

\* The mounted engine of either component of part_005 (wrap-around, with a
\* setActiveIndex callback), each section with or without a blurAmount.
BlurInit ==
    /\ variant = "Basic"
    /\ infiniteScroll = TRUE
    /\ N \in 1..MaxN
    /\ ctxRecords \in BOOLEAN
    /\ digitHeight = DefaultDigitHeight
    /\ DefaultTransitions
    /\ NoGesture
    /\ NoLoader
    /\ gsapModules = "loaded"
    /\ showIndicator = TRUE
    /\ sectionBlur \in [0..(N - 1) -> BlurValues]
    /\ blurMode \in {"or", "nullish"}
    /\ Mounted

BlurSpec == BlurInit /\ [][DigitNext]_vars

(***************************************************************************)
(* The page indicator on long pages                                        *)
(***************************************************************************)

\* The rows of a digit strip: [...Array(10)].map((_, i) => <span>{i}</span>).
StripRows == 0..9

\* The mounted wrap-around engine on a page of one section, of 99 sections
\* and of MaxPages sections (the sections array has no maximum length).
StripInit ==
    /\ variant \in {"Basic", "Framer"}
    /\ infiniteScroll = TRUE
    /\ N \in {1, MaxPages - 1, MaxPages}
    /\ ctxRecords \in BOOLEAN
    /\ digitHeight = DefaultDigitHeight
    /\ DefaultTransitions
    /\ NoGesture
    /\ NoLoader
    /\ DefaultSetup
    /\ Mounted

StripSpec == StripInit /\ [][DigitNext]_vars

TypeOK ==
    /\ variant \in Variants
    /\ infiniteScroll \in BOOLEAN
    /\ N \in 1..MaxPages
    /\ phase \in {"unmounted", "pending", "skipped", "live", "crashed"}
    /\ gsapModules \in {"pending", "loaded", "failed"}
    /\ showIndicator \in BOOLEAN
    /\ blurMode \in {"or", "nullish"}
    /\ inst \in 0..MaxInits
    /\ animating \in BOOLEAN
    /\ enabledObs \subseteq 1..MaxInits
    /\ snap \in 0..MaxInits
    /\ lastEntry \in {"none", "in", "out"}
    /\ visible \subseteq 0..(N - 1)
    /\ targetsReady \in BOOLEAN
    /\ Len(emitted) <= 1

(***************************************************************************)
(* Properties                                                              *)
(***************************************************************************)

Requests == {"onUp", "onDown"}

\* Direction sign of the request a callback stands for (Advance = onUp).
DirOf(op) == IF op = "onUp" THEN 1 ELSE -1

Last(s) == s[Len(s)]

\* The step handled a navigate request (stuttering steps aside).
RequestStep == lastOp'.op \in Requests

\* The step built and started a composite timeline.
StartStep == Len(timelines') = Len(timelines) + 1

Clamp(lo, hi, v) == IF v < lo THEN lo ELSE IF v > hi THEN hi ELSE v

\* The index a request of direction d resolves to under the boundary policy.
Resolved(d) ==
    IF infiniteScroll THEN (currentIndex + d) % N
    ELSE Clamp(0, N - 1, currentIndex + d)

C2_IndexHeldUntilCompletion ==
    (phase = "live" /\ animating /\ timelines # <<>>) =>
        currentIndex = Last(timelines).from

\* C2 (amended): currentIndex is committed synchronously by the step that
\* starts the transition and sets busy; while busy it equals the toIndex of
\* the running (most recently started) transition; apart from
\* (re-)initialisation nothing else changes it, in particular not the
\* completion callback.
C2_IndexCommittedAtStart ==
    /\ [](phase = "live" /\ animating =>
            timelines # <<>> /\ currentIndex = Last(timelines).to)
    /\ [][ /\ StartStep =>
                /\ RequestStep /\ animating'
                /\ Last(timelines').from = currentIndex
                /\ currentIndex' = Last(timelines').to
           /\ currentIndex' # currentIndex => (StartStep \/ lastOp'.op = "init")
           /\ lastOp'.op = "onComplete" => currentIndex' = currentIndex
         ]_vars

C2_Witness ==
    /\ phase = "live" /\ animating /\ Len(timelines) = 1
    /\ Last(timelines).from = 0 /\ Last(timelines).to = 1 /\ currentIndex = 1

\* C3: a request handled while not busy leaves currentIndex at the previous
\* index + 1 (onUp) or - 1 (onDown), modulo N under wraparound and clamped
\* to [0, N-1] in bounded mode.
C3_StepByOne ==
    [][ (RequestStep /\ ~animating) => currentIndex' = Resolved(DirOf(lastOp'.op)) ]_vars

C3_Witness ==
    /\ infiniteScroll /\ N = 3 /\ lastOp = Op("onDown", "started")
    /\ currentIndex = 2 /\ Last(timelines).from = 0

\* C4: under wraparound every started timeline carries the direction sign of
\* the request that caused it and targets the neighbouring index modulo N,
\* also across the seam (N-1 -> 0 with +1, 0 -> N-1 with -1).
C4_DirectionPreserved ==
    [][ (infiniteScroll /\ StartStep) =>
            LET tl == Last(timelines') IN
            /\ tl.dir = DirOf(lastOp'.op)
            /\ tl.to = (tl.from + DirOf(lastOp'.op)) % N
      ]_vars

C4_Witness ==
    /\ infiniteScroll /\ N = 3 /\ timelines # <<>>
    /\ Last(timelines).from = 2 /\ Last(timelines).to = 0 /\ Last(timelines).dir = 1

\* C5 (as stated): a request whose resolved target equals currentIndex is a
\* no-op: busy stays false, no timeline is built, nothing else changes.
C5_SameTargetNoOp ==
    [][ (RequestStep /\ ~animating /\ Resolved(DirOf(lastOp'.op)) = currentIndex) =>
            UNCHANGED <<currentIndex, animating, timelines, activeIndex>>
      ]_vars

\* C6: in bounded mode a request whose raw target currentIndex + direction is
\* outside [0, N-1] starts no transition and leaves currentIndex and busy
\* unchanged.
C6_BoundaryRefused ==
    [][ (~infiniteScroll /\ RequestStep /\
         (currentIndex + DirOf(lastOp'.op)) \notin 0..(N - 1)) =>
            UNCHANGED <<currentIndex, animating, timelines>>
      ]_vars

C6_Witness ==
    /\ ~infiniteScroll /\ N = 3 /\ lastOp = Op("onUp", "refused")
    /\ currentIndex = 2 /\ ~animating /\ timelines = <<>>

\* C7 (as stated): in bounded mode a refused boundary request leaves Input
\* Capture disabled, only an external signal (snap-scroll completion after an
\* intersection, scroll-position check) enables it again, and no request is
\* accepted while it is disabled.
C7_DisabledUntilSignal ==
    [][ ~infiniteScroll =>
           /\ lastOp'.res = "refused" => enabledObs' = {}
           /\ (enabledObs = {} /\ enabledObs' # {} /\ inst' = inst) =>
                  lastOp'.op \in {"snapComplete", "handleScroll"}
           /\ StartStep => inst \in enabledObs
      ]_vars

\* C8 (as stated): after a Retreat is refused at index 0 (N >= 2, not busy)
\* an Advance request is still accepted and starts a transition.
C8_OtherDirectionStillAccepted ==
    (phase = "live" /\ ~infiniteScroll /\ N >= 2 /\ ~animating /\
     lastOp = Op("onDown", "refused")) =>
        ENABLED (onUp /\ lastOp' = Op("onUp", "started"))

\* C8 (amended): a boundary hit switches off the engine's input observer as
\* a whole: right after a refused request the observer of the current
\* instance is not listening and delivers neither a Retreat nor an Advance.
C8_WholeObserverDisabled ==
    (phase = "live" /\ lastOp.res = "refused") =>
        /\ inst \notin enabledObs
        /\ ~ENABLED RequestBy(inst, 1)
        /\ ~ENABLED RequestBy(inst, -1)

C8_Witness ==
    /\ phase = "live" /\ ~infiniteScroll /\ N >= 2 /\ ~animating
    /\ lastOp = Op("onDown", "refused") /\ currentIndex = 0

\* C9: currentIndex is an index of an existing section in every state.
C9_IndexInRange == currentIndex \in 0..(N - 1)

C9_Witness ==
    /\ ~infiniteScroll /\ N = 3 /\ currentIndex = 2 /\ phase = "live"
    /\ lastOp.op \in {"snapComplete", "handleScroll"} /\ inst \in enabledObs

\* C10: busy is false after every (re-)initialisation, becomes true only in a
\* step that starts a timeline, and is never true in a live engine without a
\* timeline in flight.
C10_BusyOnlyWhileRunning ==
    /\ [](phase = "live" /\ animating => Len(timelines) >= 1)
    /\ [][ /\ (~animating /\ animating') => (StartStep /\ RequestStep)
           /\ lastOp'.op = "init" => ~animating'
           /\ (lastOp'.op = "onComplete" /\ timelines' = <<>>) => ~animating'
         ]_vars

C10_Witness ==
    /\ phase = "live" /\ ~animating /\ timelines = <<>> /\ inst = 2
    /\ lastOp = Op("onComplete", "done")

\* The step ran the completion callback of the timeline at position i.
Completes(i) == lastOp'.op = "onComplete" /\ timelines' = RemoveAt(timelines, i)

\* The two-digit number the page indicator shows: the digit row of each strip
\* that its y offset brings into the window.
Displayed == 10 * ((-tensY) \div digitHeight) + ((-unitsY) \div digitHeight)

\* C11: requests are dropped, not buffered: a timeline is started only by
\* the step that handles a request arriving while not busy, one per such
\* request at most; a completion callback starts nothing, and an idle engine
\* stays idle until a request arrives.
C11_DroppedNotBuffered ==
    [][ /\ StartStep => (RequestStep /\ ~animating)
        /\ Len(timelines') <= Len(timelines) + 1
        /\ lastOp'.op = "onComplete" => Len(timelines') < Len(timelines)
        /\ (~animating /\ ~RequestStep) => ~animating'
      ]_vars

C11_Witness ==
    /\ phase = "live" /\ inst = 1 /\ ~animating /\ timelines = <<>>
    /\ lastOp = Op("onComplete", "done") /\ currentIndex = 1

C13_NotifiedOneBased ==
    [][ (variant = "Basic" /\ lastOp'.op = "onComplete") =>
            \E i \in DOMAIN timelines : Completes(i) /\ emitted' = <<timelines[i].to + 1>>
      ]_vars

\* C13 (amended): the completion of a transition to target t invokes the
\* notification with the 0-based index t, one less than the number the page
\* indicator has rolled to.
C13_NotifiedZeroBased ==
    [][ (variant = "Basic" /\ lastOp'.op = "onComplete") =>
            \E i \in DOMAIN timelines :
                /\ Completes(i)
                /\ emitted' = <<timelines[i].to>>
                /\ activeIndex' = timelines[i].to
                /\ Displayed' = emitted'[1] + 1
      ]_vars

C13_Witness ==
    /\ variant = "Basic" /\ lastOp = Op("onComplete", "done")
    /\ emitted = <<2>> /\ Displayed = 3

\* C14: the page-indicator digits are a function of the target index alone:
\* for a transition to index i in [0, N-1], with number = i + 1, the tens
\* strip is driven to -floor(number / 10) * digitHeight and the units strip
\* to -(number mod 10) * digitHeight (i = 0: 1 / 0 / 1, i = 10: 11 / 1 / 1),
\* and these are the offsets the strips have when the transition completes.
C14_DigitsOfIndex ==
    [][ /\ StartStep =>
              LET tl == Last(timelines')
                  number == tl.to + 1
              IN /\ tl.to \in 0..(N - 1)
                 /\ \E tens \in 0..9, units \in 0..9 :
                       /\ 10 * tens + units = number
                       /\ tl.tensY = -tens * digitHeight
                       /\ tl.unitsY = -units * digitHeight
                 /\ tl.to = 0 => (tl.tensY = 0 /\ tl.unitsY = -digitHeight)
                 /\ tl.to = 10 => (tl.tensY = -digitHeight /\ tl.unitsY = -digitHeight)
        /\ lastOp'.op = "onComplete" =>
              \E i \in DOMAIN timelines :
                  /\ Completes(i)
                  /\ tensY' = timelines[i].tensY /\ unitsY' = timelines[i].unitsY
                  /\ Displayed' = timelines[i].to + 1
      ]_vars

C14_Witness ==
    /\ lastOp = Op("onComplete", "done") /\ currentIndex = 10 /\ timelines = <<>>
    /\ digitHeight = 50 /\ tensY = -50 /\ unitsY = -50

\* C15 (as stated): in every idle state (not busy, no timeline in flight) of
\* a live engine the digit strips show currentIndex + 1.
C15_IdleDigitsShowIndex ==
    (phase = "live" /\ ~animating /\ timelines = <<>>) => Displayed = currentIndex + 1

\* C16 (as stated): after teardown the torn-down instance starts no
\* transition and none of its completion callbacks run: every timeline is
\* started and completed by the live, current instance, and while no engine
\* is live busy, currentIndex and the notification do not change.
C16_TeardownCancels ==
    [][ /\ StartStep => (phase = "live" /\ Last(timelines').inst = inst)
        /\ lastOp'.op = "onComplete" =>
              \E i \in DOMAIN timelines :
                  Completes(i) /\ timelines[i].inst = inst /\ phase = "live"
        /\ (phase # "live" /\ phase' # "live") =>
              (UNCHANGED <<animating, currentIndex, activeIndex>> /\ emitted' = <<>>)
      ]_vars

\* C17: the first initialisation leaves the engine at index 0, not busy,
\* with section 0 the only visible section and the page indicator at 01, set
\* by the initialisation step itself (no timeline is built for it); every
\* initialisation resets index, busy flag, section 0 and indicator this way,
\* and no request is handled before the first initialisation.
C17_MountState ==
    /\ [](inst = 0 => (timelines = <<>> /\ ~animating /\ currentIndex = 0 /\ enabledObs = {}))
    /\ [][ /\ lastOp'.op = "init" =>
                /\ currentIndex' = 0 /\ ~animating'
                /\ 0 \in visible' /\ Displayed' = 1
                /\ Len(timelines') <= Len(timelines)
                /\ inst = 0 => visible' = {0}
           /\ RequestStep => (phase = "live" /\ inst >= 1)
         ]_vars

C17_Witness ==
    /\ lastOp = Op("init", "done") /\ inst = 1 /\ phase = "live"
    /\ currentIndex = 0 /\ ~animating /\ visible = {0} /\ Displayed = 1 /\ timelines = <<>>

\* C18: nothing but a completion callback (or a re-initialisation) ends the
\* busy state: while busy, every other step, navigate requests included,
\* leaves busy true, starts no timeline and leaves currentIndex unchanged.
C18_NoWatchdog ==
    [][ (animating /\ lastOp'.op \notin {"onComplete", "init"}) =>
            (animating' /\ currentIndex' = currentIndex /\ ~StartStep)
      ]_vars

C18_Witness ==
    /\ animating /\ N = 3 /\ currentIndex = 2 /\ Len(timelines) = 1
    /\ lastOp = Op("onDown", "dropped")

\* C19 (as stated): initialisation is deferred until the visual targets are
\* available: once the effect has run and the targets are available, the
\* initialisation is pending or done, and a live engine has its targets.
C19_DeferredUntilAvailable ==
    /\ (targetsReady /\ phase # "unmounted") => phase \in {"pending", "live"}
    /\ phase = "live" => targetsReady

\* C20 (as stated): while the engine's input observer is disabled no request
\* is handled and no transition starts; apart from a running transition's
\* completion and a re-initialisation, currentIndex and busy do not change.
C20_NoInputWhileDisabled ==
    [][ (phase = "live" /\ inst \notin enabledObs /\
         lastOp'.op \notin {"onComplete", "init"}) =>
            (~RequestStep /\ ~StartStep /\ UNCHANGED <<currentIndex, animating>>)
      ]_vars

\* C24 (as stated): in every idle state of a live engine exactly one section
\* is visible and it is the section at currentIndex, for every N >= 1 and
\* after every completed transition, a same-index transition included.
C24_OneVisibleWhenIdle ==
    (phase = "live" /\ ~animating /\ timelines = <<>>) => visible = {currentIndex}

\* C25 (as stated): a re-initialised engine starts at index 0 and not busy,
\* and no callback of a previous instance changes the new instance's
\* currentIndex, busy flag or input-capture state: not the completion of an
\* older instance's timeline, not the completion of a snap-scroll started for
\* an older observer, and not a request delivered by an older observer (the
\* only kind of request there can be while the current observer is disabled).
C25_ReinitIsolated ==
    [][ /\ lastOp'.op = "init" => (currentIndex' = 0 /\ ~animating')
        /\ \A i \in DOMAIN timelines :
              (phase = "live" /\ Completes(i) /\ timelines[i].inst # inst) =>
                  UNCHANGED <<currentIndex, animating>>
        /\ (phase = "live" /\ lastOp'.op = "snapComplete" /\ snap # inst) =>
              /\ UNCHANGED <<currentIndex, animating>>
              /\ (inst \in enabledObs') = (inst \in enabledObs)
        /\ (phase = "live" /\ RequestStep /\ inst \notin enabledObs) =>
              /\ UNCHANGED <<currentIndex, animating>>
              /\ inst \notin enabledObs'
      ]_vars

\* C27: a cleanup that runs while the deferred initialisation timer is still
\* armed clears it: the step creates no observer, sets no section or indicator
\* state and emits nothing, and the initialisation of the timer-driven
\* packagings only ever runs from a state whose timer is armed, which only a
\* new effect run brings about.
C27_CleanupBeforeTimer ==
    [][ /\ (lastOp'.op = "cleanup" /\ phase = "pending") =>
              /\ phase' = "unmounted"
              /\ UNCHANGED <<inst, enabledObs, visual, currentIndex, animating,
                             activeIndex, timelines>>
              /\ emitted' = <<>>
        /\ (variant # "Framer" /\ lastOp'.op \in {"init", "guard"}) => phase = "pending"
        /\ (phase # "pending" /\ phase' = "pending") => lastOp'.op = "effect"
      ]_vars

C27_Witness ==
    /\ lastOp = Op("cleanup", "cleared") /\ phase = "unmounted" /\ targetsReady
    /\ inst = 0 /\ enabledObs = {} /\ visible = {} /\ activeIndex = 0

\* C28: in bounded mode of the Framer component the input observer is
\* disabled when the initialisation returns, and the current observer goes
\* from disabled to enabled only in the completion callback of a snap-scroll
\* that an intersecting signal started for it; in wraparound mode the
\* initialisation leaves it enabled and it stays enabled while the engine
\* is live.
C28_FramerEnableTiming ==
    [][ variant = "Framer" =>
          /\ lastOp'.op = "init" => ((inst' \in enabledObs') = infiniteScroll)
          /\ (~infiniteScroll /\ inst' = inst /\ inst \notin enabledObs /\ inst \in enabledObs') =>
                (lastOp'.op = "snapComplete" /\ snap = inst /\ isSnapping)
          /\ (snap' # 0 /\ snap' # snap) =>
                (lastOp' = Op("intersection", "snap") /\ snap' = inst /\ inst \notin enabledObs)
          /\ (infiniteScroll /\ phase' = "live") => inst' \in enabledObs'
      ]_vars

C28_Witness ==
    /\ variant = "Framer" /\ ~infiniteScroll /\ phase = "live" /\ inst = 1
    /\ lastOp = Op("snapComplete", "enabled") /\ enabledObs = {1} /\ ~isSnapping

C26_EnabledOnlyInView ==
    (variant = "Framer" /\ ~infiniteScroll /\ phase = "live" /\ lastEntry = "out") =>
        inst \notin enabledObs

\* C22: with the animation clock advancing and no teardown, every busy state
\* is eventually followed by a state that is not busy and whose currentIndex
\* is the target the transition committed; the engine never stays busy
\* forever.
C22_TransitionCompletes ==
    \A t \in 0..(MaxSections - 1) :
        (animating /\ currentIndex = t) ~> (~animating /\ currentIndex = t)

C22_Witness ==
    /\ ~animating /\ timelines = <<>> /\ lastOp = Op("onComplete", "done")
    /\ currentIndex = 2 /\ visible = {2}

\* C23: the completion callback (clearing busy, notification) of a timeline
\* runs only when every track has finished: outgoing heading, outgoing image,
\* wrappers and incoming image added at offset 0, incoming heading and both
\* digit strips added at offset 0.2 s; no tick that leaves a track running
\* clears busy, for every configured duration, stagger and heading length.
C23_CompletionAfterAllTracks ==
    [][ /\ \A i \in DOMAIN timelines :
              Completes(i) => \A k \in DOMAIN Tracks : Tracks[k].end <= timelines[i].time
        /\ (animating /\ ~animating') => lastOp'.op = "onComplete"
        /\ lastOp'.op = "tick" => (animating' = animating /\ emitted' = <<>>)
        /\ \A k \in DOMAIN Tracks :
              Tracks[k].start = IF Tracks[k].name \in {"inHeading", "tens", "units"}
                                THEN 200 ELSE 0
      ]_vars

C23_Witness ==
    /\ lastOp = Op("onComplete", "done") /\ ~animating /\ timelines = <<>>
    /\ duration = 100 /\ textStagger = 100 /\ chars = MaxGlyphs /\ currentIndex = 1

\* The step handled a raw input event.
RawStep == lastOp'.op \in Requests \cup {"raw"}

C30_LoadedMeansAllLoaded ==
    \A i \in Instances :
        /\ loaders[i].st \in {"scriptsLoaded", "initialised", "skipped"} =>
              \A k \in Scripts : scripts[k] = "loaded"
        /\ loaders[i].st # "skipped"

\* C31: if loading the GSAP modules fails in the Framer component, isGsapReady
\* never becomes true and the engine is never initialised: the component
\* stays in its "Initializing..." state and nothing dereferences the
\* undefined gsap object.
C31_FailedImportStaysInitializing ==
    gsapModules = "failed" => (~isGsapReady /\ phase = "unmounted" /\ inst = 0)

\* C32: in the variants that check the page-indicator handle first, with the
\* indicator not rendered the initialisation returns before any state is set
\* or any observer is created, so no navigate request is ever accepted; in
\* the Framer component the effect does not look at the handle: the engine
\* can still be initialised and, once idle with its observer enabled, accepts
\* a request.
C32_NoIndicatorNoEngine ==
    /\ (~showIndicator /\ variant \in {"Basic", "Scroll"}) =>
          /\ inst = 0 /\ phase # "live"
          /\ enabledObs = {} /\ timelines = <<>> /\ ~animating
          /\ currentIndex = 0 /\ activeIndex = 0 /\ visible = {}
          /\ tensY = 0 /\ unitsY = 0
          /\ lastOp.op \notin Requests \cup {"init", "onComplete"}
    /\ (~showIndicator /\ variant = "Framer" /\ phase = "unmounted" /\ inst = 0
            /\ isGsapReady) => ENABLED FramerMount
    /\ (~showIndicator /\ variant = "Framer" /\ phase = "live" /\ infiniteScroll
            /\ inst \in enabledObs /\ ~animating) =>
          ENABLED (onDown /\ lastOp' = Op("onDown", "started"))

\* The timer callback found the GSAP globals but no indicator handle.
C32_Witness ==
    /\ ~showIndicator /\ variant \in {"Basic", "Scroll"}
    /\ targetsReady /\ lastOp = Op("guard", "skipped")

C34_DirectionFlipsOffsets ==
    \A i \in DOMAIN timelines :
        LET tl == timelines[i]
            d == tl.dir
            other == Offsets(-d)
        IN  /\ d \in {-1, 1}
            /\ tl.offsets.outText = -150 * d /\ tl.offsets.outImage = -30 * d
            /\ tl.offsets.inImage = 30 * d /\ tl.offsets.inText = 150 * d
            /\ tl.offsets.outer = 100 * d /\ tl.offsets.inner = -100 * d
            /\ tl.offsets.outer = -tl.offsets.inner /\ tl.offsets.outer # 0
            /\ tl.offsets.outerEnd = 0 /\ tl.offsets.innerEnd = 0
            /\ \A k \in {"outText", "outImage", "inImage", "inText", "outer", "inner"} :
                   other[k] = -tl.offsets[k]

\* A request in the direction -1 has just started a transition.
C34_Witness ==
    /\ lastOp.op \in Requests /\ lastOp.res = "started"
    /\ \E i \in DOMAIN timelines : timelines[i].dir = -1 /\ timelines[i].offsets.outText = 150

\* C35: a per-section blur override takes precedence over the global default
\* whenever it is present: the outgoing image uses the outgoing section's
\* blur, the incoming image the incoming section's, the default is used only
\* for a section without an override, and both configurable variants resolve
\* the same blur for every section, the empty string included.
C35_OverrideTakesPrecedence ==
    \A i \in DOMAIN timelines :
        LET tl == timelines[i]
            out == sectionBlur[tl.from]
            inc == sectionBlur[tl.to]
        IN  /\ tl.blurOut = (IF out = Absent THEN ImageBlurAmount ELSE out)
            /\ tl.blurIn = (IF inc = Absent THEN ImageBlurAmount ELSE inc)
            /\ BlurOr(out) = BlurNullish(out)
            /\ BlurOr(inc) = BlurNullish(inc)

\* C36: for every section count N >= 1 and every index in [0, N-1] the tens
\* and units values driving the digit strips are in 0..9: each strip rests at,
\* and is moved to, one of its ten digit rows.
C36_DigitsWithinStrip ==
    LET OnRow(y) == \E r \in StripRows : y = -r * digitHeight IN
    /\ OnRow(tensY) /\ OnRow(unitsY)
    /\ \A i \in DOMAIN timelines :
          /\ OnRow(timelines[i].tensY) /\ OnRow(timelines[i].unitsY)
          /\ nextTens(timelines[i].to) \in StripRows
          /\ nextUnits(timelines[i].to) \in StripRows

====
